---- MODULE Spec2Model ----
(***************************************************************************)
(* Model of the asynchronous job layer of Deep_Research/app.py:            *)
(*   - the HTTP job store JOBS behind POST /deep-research,                 *)
(*   - the MCP job store RESEARCH_JOBS behind the deep_research and        *)
(*     get_research_status tools,                                          *)
(*   - POST /deep-research/sync,                                           *)
(* together with run_deep_research of Deep_Research/service.py.            *)
(*                                                                         *)
(* Every handler and every task runs on one asyncio event loop: the code   *)
(* between two awaits is one atomic step, and one action below is one such *)
(* step.                                                                   *)
(*                                                                         *)
(* Texts are sequences of tokens, so that the empty string <<>>, Python's  *)
(* None and formatted strings stay distinct values.                        *)
(***************************************************************************)
EXTENDS Integers, Sequences, FiniteSets, TLC

\* ---------------------------------------------------------------- bounds

\* At most MaxRequests research requests are accepted, through the three entry
\* points together (/deep-research, the deep_research tool, /deep-research/sync).
MaxRequests == 2

\* ---------------------------------------------------------------- values

\* Python's None.
None == <<"<None>">>

\* Python truthiness of an Optional[str]: None and "" are falsy.
Truthy(x) == x /= None /\ x /= <<>>

\* Python's `a or b`.
Or(a, b) == IF Truthy(a) THEN a ELSE b

\* str(x) inside an f-string: None prints as the text "None".
Str(x) == IF x = None THEN <<"None">> ELSE x

\* str.strip() on a sequence of characters: drops leading and trailing blanks.
RECURSIVE LStrip(_)
LStrip(s) == IF s /= <<>> /\ Head(s) = " " THEN LStrip(Tail(s)) ELSE s

RECURSIVE RStrip(_)
RStrip(s) ==
    IF s /= <<>> /\ s[Len(s)] = " " THEN RStrip(SubSeq(s, 1, Len(s) - 1)) ELSE s

Strip(s) == RStrip(LStrip(s))

\* str.lower(), on the one text whose case the code looks at.
Lower(s) ==
    [i \in DOMAIN s |->
        IF s[i] = "No Keywords Added" THEN "no keywords added" ELSE s[i]]

\* A request body field: absent/null, or a string (empty, blank, a text, a
\* padded text).
Fields == {None, <<>>, <<" ">>, <<"a">>, <<" ", "a">>}

\* The values the first 8 characters of a uuid4 take here, in the order in
\* which they are first drawn.
Prefixes == <<"0f3a9c1e", "7b2d4e6a">>

\* str(uuid.uuid4()): the first 8 characters and the remaining 28, as two
\* blocks. Two uuid4 values never agree on both: the value drawn for the n-th
\* request has n as its second block, and any first block.
UUIDs == {<<Prefixes[i], ToString(n)>> : i \in DOMAIN Prefixes, n \in 1..MaxRequests}

\* str(uuid.uuid4()): the whole text is the job id of the HTTP store.
UuidStr(u) == u

\* str(uuid.uuid4())[:8]: the first block only.
Trunc8(u) == SubSeq(u, 1, 1)

\* JobStatus of the HTTP store.
QUEUED == "queued"
RUNNING == "running"
DONE == "done"
FAILED == "failed"

\* ------------------------------------------------- service.run_deep_research

\* What the compiled graph's event stream does: it raises, or it ends; when it
\* ends the last on_chain_end event of "LangGraph" left final_state (None when
\* no such event came, an empty dict, or a dict with the two report fields).
ExcMsgs == {<<"boom">>}

ReportVals == {None, <<>>, <<"report text">>}

DraftVals == {None, <<"draft text">>}

FinalStates ==
    {[kind |-> "none"], [kind |-> "empty"]}
    \cup {[kind |-> "dict", final_report |-> f, draft_report |-> d] :
            f \in ReportVals, d \in DraftVals}

BackendOutcomes ==
    {[kind |-> "raise", msg |-> m] : m \in ExcMsgs}
    \cup {[kind |-> "stream", final_state |-> fs] : fs \in FinalStates}

ErrNoFinalState == <<"Error: No final state returned from graph stream.">>

ErrNoReport == <<"Error: No final_report or draft_report found in result state.">>

\* `not final_state`: None and the empty dict are falsy.
FinalStateFalsy(fs) == fs.kind \in {"none", "empty"}

\* The outcome of `await run_deep_research(prompt)`: an exception or a text.
run_deep_research(o) ==
    IF o.kind = "raise" THEN [kind |-> "raise", msg |-> o.msg]
    ELSE IF FinalStateFalsy(o.final_state)
         THEN [kind |-> "return", text |-> ErrNoFinalState]
    ELSE LET final_profile == Or(o.final_state.final_report,
                                 o.final_state.draft_report)
         IN IF ~Truthy(final_profile)
            THEN [kind |-> "return", text |-> ErrNoReport]
            ELSE [kind |-> "return", text |-> final_profile]

\* The backend returned malformed data: no final state, or none of the reports.
Malformed(o) ==
    /\ o.kind = "stream"
    /\ \/ FinalStateFalsy(o.final_state)
       \/ ~Truthy(Or(o.final_state.final_report, o.final_state.draft_report))

\* ------------------------------------------------------------------ state

VARIABLES
    requests,       \* how many research requests have been accepted so far
    JOBS,           \* app.JOBS: job id -> JobState
    bgTask,         \* background_deep_research tasks: uuid -> position, backend
    RESEARCH_JOBS,  \* app.RESEARCH_JOBS: job id -> dict
    rtTask,         \* run_research_task tasks: uuid -> position, backend
    toolCall,       \* call_tool("deep_research") handlers: uuid -> position
    syncReq,        \* the /deep-research/sync requests accepted: number -> outcome
    supState,       \* supervisor_tools: the SupervisorState it was called with
    supPc,          \* supervisor_tools: its position
    tool_messages,  \* supervisor_tools: the local list tool_messages
    researchers,    \* supervisor_tools: the coroutines handed to asyncio.gather
    supOut,         \* supervisor_tools: the Command it returned
    web_server_sessions,  \* app.web_server_sessions: the registered session ids
    sessions,       \* the SSE connections: session id -> generator, streams, task
    posts           \* the handle_messages handlers that have not returned yet

jobVars == <<requests, JOBS, bgTask, RESEARCH_JOBS, rtTask, toolCall, syncReq>>

supVars == <<supState, supPc, tool_messages, researchers, supOut>>

sseVars == <<web_server_sessions, sessions, posts>>

vars == <<jobVars, supVars, sseVars>>

httpVars == <<JOBS, bgTask>>

mcpVars == <<RESEARCH_JOBS, rtTask, toolCall>>

\* What a handler answers: the kind of answer, the job id it names (None when
\* it names none) and its text. A handler that only reads the stores changes
\* no state: its answer is an operator of the state it reads.
Resp(k, j, t) == [kind |-> k, job |-> j, text |-> t]

\* The job layer after import: both stores are empty.
JobInit ==
    /\ requests = 0
    /\ JOBS = <<>>
    /\ bgTask = <<>>
    /\ RESEARCH_JOBS = <<>>
    /\ rtTask = <<>>
    /\ toolCall = <<>>
    /\ syncReq = <<>>

\* No call of supervisor_tools is under way.
SupIdle ==
    /\ supState = [supervisor_messages |-> <<>>]
    /\ supPc = "idle"
    /\ tool_messages = <<>>
    /\ researchers = <<>>
    /\ supOut = [ret |-> "-"]

\* No SSE connection has been opened: the registry is empty.
SseInit ==
    /\ web_server_sessions = {}
    /\ sessions = <<>>
    /\ posts = <<>>

Init == JobInit /\ SupIdle /\ SseInit

\* The uuid4 values drawn for jobs so far.
Drawn == DOMAIN bgTask \cup DOMAIN rtTask

\* uuid.uuid4(): a value never drawn before. Its first 8 characters are those
\* of an earlier value or new ones (the next of Prefixes: which 8 characters
\* come first makes no difference to any handler).
Fresh(u) ==
    /\ requests < MaxRequests
    /\ u \in UUIDs
    /\ u[2] = ToString(requests + 1)
    /\ \E i \in DOMAIN Prefixes :
          /\ u[1] = Prefixes[i]
          /\ \A k \in 1..(i - 1) : Prefixes[k] \in {d[1] : d \in Drawn}

\* A task: where it stands, and what its backend call did once it ended
\* ("raised", "malformed" or "report"; "-" before).
Task(pc, backend) == [pc |-> pc, backend |-> backend]

BackendClass(o) ==
    IF o.kind = "raise" THEN "raised"
    ELSE IF Malformed(o) THEN "malformed" ELSE "report"

\* ------------------------------------------------------ POST /deep-research

\* The job_id field of a request body: absent, a string, one of the texts the
\* form sends for "no id", or (possibly padded) the text of a uuid.
RawJobIds ==
    Fields
    \cup {<<"no keywords added">>, <<" ", "No Keywords Added">>}
    \cup UUIDs
    \cup {u \o <<" ">> : u \in UUIDs}

\* A request body: its job_id, prompt and query fields.
Bodies == [job_id : RawJobIds, prompt : Fields, query : {None, <<"a">>}]

is_job_id_missing(job_id) ==
    IF ~Truthy(job_id) THEN TRUE
    ELSE LET cleaned == Strip(job_id)
         IN IF cleaned = <<>> THEN TRUE
            ELSE Lower(cleaned) = <<"no keywords added">>

\* (body.get("prompt") or body.get("query") or "").strip()
BodyPrompt(body) == Strip(Or(Or(body.prompt, body.query), <<>>))

\* JobState(status=..., result=None): error defaults to None.
JobState(status) == [status |-> status, result |-> None, error |-> None]

\* Mutant of MarkRunning: the task forgets to mark the job RUNNING.
MarkRunning_Skipped(job) == job

\* Lines 73-74: the job is marked RUNNING.
MarkRunning(job) == [job EXCEPT !.status = RUNNING]

\* Mutant of MarkDone: the status is set and the report is not stored.
MarkDone_NoResult(job, report) == [job EXCEPT !.status = DONE]

\* Mutant of MarkDone: the report is stored and the status is left as it was.
MarkDone_NoStatus(job, report) == [job EXCEPT !.result = report]

\* Lines 79-81: the job is marked DONE with the report.
MarkDone(job, report) == [job EXCEPT !.status = DONE, !.result = report]

\* Lines 86-89: the job is marked FAILED with the error and "Failed: <error>".
MarkFailed(job, e) ==
    [job EXCEPT !.status = FAILED, !.error = e, !.result = <<"Failed: ">> \o e]

\* The answer of case 2 for a stored job.
HttpPollResp(job_id, job) ==
    IF job.status \in {QUEUED, RUNNING}
    THEN Resp("in_progress", job_id, <<"Research in progress for Job ID ">>)
    ELSE IF job.status = DONE THEN Resp("done", None, job.result)
    ELSE IF job.status = FAILED
    THEN Resp("failed", job_id,
              <<"Research failed for Job ID. Error: ">>
                  \o Str(Or(job.result, job.error)))
    ELSE Resp("unknown", None, <<"Unknown state">>)

\* Mutant of HttpReadAnswer: the job id is looked up as it was sent, unstripped.
HttpReadAnswer_NoStrip(body) ==
    IF is_job_id_missing(body.job_id)
    THEN Resp("prompt_required", None,
              <<"Error: Please provide a prompt to start research.">>)
    ELSE LET job_id == body.job_id
         IN IF job_id \notin DOMAIN JOBS
            THEN Resp("not_found", None, <<"Job ID not found.">>)
            ELSE HttpPollResp(job_id, JOBS[job_id])

\* What deep_research_endpoint answers to a body it only reads the store for:
\* case 1 with an empty prompt, and case 2.
HttpReadAnswer(body) ==
    IF is_job_id_missing(body.job_id)
    THEN Resp("prompt_required", None,
              <<"Error: Please provide a prompt to start research.">>)
    ELSE LET job_id == Strip(body.job_id)
         IN IF job_id \notin DOMAIN JOBS
            THEN Resp("not_found", None, <<"Job ID not found.">>)
            ELSE HttpPollResp(job_id, JOBS[job_id])

\* What deep_research_endpoint answers when it starts a job.
HttpStartResp(u) == Resp("started", UuidStr(u), <<"Research started. Job ID: ">>)

\* The bodies of case 1 with an empty prompt, and those of case 2.
RejectedBodies ==
    {b \in Bodies : is_job_id_missing(b.job_id) /\ BodyPrompt(b) = <<>>}

PollBodies == {b \in Bodies : ~is_job_id_missing(b.job_id)}

\* Case 1 with an empty prompt: the error message; nothing is created.
HttpStartRejected ==
    /\ RejectedBodies /= {}
    /\ UNCHANGED vars

\* Case 1: a QUEUED record is stored under a new uuid, the background task is
\* created (it starts at a later step of the loop) and the id is returned.
HttpStart(body, u) ==
    /\ Fresh(u)
    /\ is_job_id_missing(body.job_id)
    /\ BodyPrompt(body) /= <<>>
    /\ requests' = requests + 1
    /\ JOBS' = (UuidStr(u) :> JobState(QUEUED)) @@ JOBS
    /\ bgTask' = (u :> Task("created", "-")) @@ bgTask
    /\ UNCHANGED <<mcpVars, syncReq, supVars, sseVars>>

\* Case 2: the status of a job, or "not found"; nothing is changed.
HttpPoll ==
    /\ PollBodies /= {}
    /\ UNCHANGED vars

\* background_deep_research up to its await: the job becomes RUNNING.
BgStart(u) ==
    /\ u \in DOMAIN bgTask
    /\ bgTask[u].pc = "created"
    /\ LET job_id == UuidStr(u)
       IN JOBS' = IF job_id \in DOMAIN JOBS
                  THEN [JOBS EXCEPT ![job_id] = MarkRunning(@)]
                  ELSE JOBS
    /\ bgTask' = [bgTask EXCEPT ![u] = Task("awaiting", "-")]
    /\ UNCHANGED <<requests, mcpVars, syncReq, supVars, sseVars>>

\* background_deep_research after its await: DONE with the report, or FAILED.
BgFinish(u, o) ==
    /\ u \in DOMAIN bgTask
    /\ bgTask[u].pc = "awaiting"
    /\ LET job_id == UuidStr(u)
           r == run_deep_research(o)
       IN JOBS' = IF job_id \notin DOMAIN JOBS THEN JOBS
                  ELSE IF r.kind = "return"
                  THEN [JOBS EXCEPT ![job_id] = MarkDone(@, r.text)]
                  ELSE [JOBS EXCEPT ![job_id] = MarkFailed(@, r.msg)]
    /\ bgTask' = [bgTask EXCEPT ![u] = Task("finished", BackendClass(o))]
    /\ UNCHANGED <<requests, mcpVars, syncReq, supVars, sseVars>>

HttpNext ==
    \/ HttpStartRejected
    \/ \E b \in Bodies, u \in UUIDs : HttpStart(b, u)
    \/ HttpPoll
    \/ \E u \in UUIDs : BgStart(u)
    \/ \E u \in UUIDs, o \in BackendOutcomes : BgFinish(u, o)

\* ------------------------------------------------------ MCP tools (call_tool)

\* The record run_research_task stores when it starts. The "error" key is added
\* on failure only; job.get("error") reads a missing key as None.
RunningRecord == [status |-> "running", result |-> None, error |-> None, logs |-> <<>>]

\* logs.append(msg). The only read of logs is logs[-1] (get_research_status),
\* so the record keeps the last message only.
LogAppend(logs, msg) == <<msg>>

\* Mutant of MarkCompleted: the status is written, the result is not yet.
MarkCompleted_StatusOnly(job, result) == [job EXCEPT !.status = "completed"]

\* Lines 251-252: the record is marked completed with the result.
MarkCompleted(job, result) == [job EXCEPT !.status = "completed", !.result = result]

\* Lines 256-257: the record is marked failed with the error.
MarkFailedMcp(job, e) == [job EXCEPT !.status = "failed", !.error = e]

\* A progress message run_deep_research reports through status_callback.
LogMsgs == {<<"Starting step: ...">>}

\* The job_id argument of get_research_status.
StatusArgs == {None, <<>>, <<"a">>} \cup {Trunc8(u) : u \in UUIDs}

\* The answer of get_research_status for a stored record.
ToolStatusResp(job_id, job) ==
    IF job.status = "running"
    THEN Resp("running", job_id,
              IF job.logs /= <<>> THEN job.logs[Len(job.logs)]
              ELSE <<"Processing...">>)
    ELSE IF job.status = "failed"
    THEN Resp("failed", job_id, <<"Job failed: ">> \o Str(job.error))
    ELSE Resp("completed", None, job.result)

\* What call_tool("get_research_status") answers.
ToolStatusAnswer(job_id) ==
    IF ~Truthy(job_id)
    THEN Resp("job_id_required", None, <<"Error: job_id is required">>)
    ELSE IF job_id \notin DOMAIN RESEARCH_JOBS
    THEN Resp("not_found", None, <<"Job not found">>)
    ELSE ToolStatusResp(job_id, RESEARCH_JOBS[job_id])

\* call_tool("ping"): "pong"; nothing is changed.
ToolPing == UNCHANGED vars

\* call_tool("get_research_status"): ToolStatusAnswer; nothing is changed.
ToolStatus ==
    /\ StatusArgs /= {}
    /\ UNCHANGED vars

\* call_tool("deep_research") without a prompt: ValueError; nothing is changed.
ToolStartRejected ==
    /\ {p \in Fields : ~Truthy(p)} /= {}
    /\ UNCHANGED vars

\* call_tool("deep_research") up to its await: the id is the first 8 characters
\* of a new uuid, the task is created, and the handler waits for it (5 s).
ToolStart(prompt, u) ==
    /\ Fresh(u)
    /\ Truthy(prompt)
    /\ requests' = requests + 1
    /\ rtTask' = (u :> Task("created", "-")) @@ rtTask
    /\ toolCall' = (u :> "waiting") @@ toolCall
    /\ UNCHANGED <<httpVars, RESEARCH_JOBS, syncReq, supVars, sseVars>>

\* run_research_task up to its first await: a fresh "running" record is stored
\* under the job id, whatever was stored there.
RtStart(u) ==
    /\ u \in DOMAIN rtTask
    /\ rtTask[u].pc = "created"
    /\ RESEARCH_JOBS' = (Trunc8(u) :> RunningRecord) @@ RESEARCH_JOBS
    /\ rtTask' = [rtTask EXCEPT ![u] = Task("awaiting", "-")]
    /\ UNCHANGED <<requests, httpVars, toolCall, syncReq, supVars, sseVars>>

\* log_callback, called from run_deep_research while the task awaits it.
RtLog(u, msg) ==
    /\ u \in DOMAIN rtTask
    /\ rtTask[u].pc = "awaiting"
    /\ RESEARCH_JOBS' = [RESEARCH_JOBS EXCEPT ![Trunc8(u)].logs = LogAppend(@, msg)]
    /\ UNCHANGED <<requests, httpVars, rtTask, toolCall, syncReq, supVars, sseVars>>

\* run_research_task after its await: completed with the result, or failed.
RtFinish(u, o) ==
    /\ u \in DOMAIN rtTask
    /\ rtTask[u].pc = "awaiting"
    /\ LET r == run_deep_research(o)
       IN RESEARCH_JOBS' =
            IF r.kind = "return"
            THEN [RESEARCH_JOBS EXCEPT ![Trunc8(u)] = MarkCompleted(@, r.text)]
            ELSE [RESEARCH_JOBS EXCEPT ![Trunc8(u)] = MarkFailedMcp(@, r.msg)]
    /\ rtTask' = [rtTask EXCEPT ![u] = Task("finished", BackendClass(o))]
    /\ UNCHANGED <<requests, httpVars, toolCall, syncReq, supVars, sseVars>>

\* asyncio.wait_for(asyncio.shield(task), 5.0) timing out: the shield is
\* cancelled, the task it protects is not.
ShieldedTimeout(task) == task

\* What call_tool("deep_research") answers once its task is done.
ToolDoneResp(job) ==
    IF job.status = "completed" THEN Resp("completed", None, job.result)
    ELSE IF job.status = "failed"
    THEN Resp("error", None, <<"Error: ">> \o Str(job.error))
    ELSE Resp("no_result_state", None,
              <<"Error: Job finished but no result state found.">>)

\* Lines 358-366: the JSON text with the job id and status "running".
StillRunningResp(job_id) == Resp("still_running", job_id, <<"running">>)

\* call_tool("deep_research") resumed because its task finished within 5 s: it
\* answers ToolDoneResp of the record stored under its id.
ToolReturn(u) ==
    /\ u \in DOMAIN toolCall
    /\ toolCall[u] = "waiting"
    /\ rtTask[u].pc = "finished"
    /\ toolCall' = [toolCall EXCEPT ![u] = "returned"]
    /\ UNCHANGED <<requests, httpVars, RESEARCH_JOBS, rtTask, syncReq, supVars, sseVars>>

\* call_tool("deep_research") resumed by the 5 s timeout: the task has started
\* (its first step was scheduled before the timer) and has not finished; it
\* answers StillRunningResp with its job id.
ToolTimeout(u) ==
    /\ u \in DOMAIN toolCall
    /\ toolCall[u] = "waiting"
    /\ rtTask[u].pc = "awaiting"
    /\ rtTask' = [rtTask EXCEPT ![u] = ShieldedTimeout(@)]
    /\ toolCall' = [toolCall EXCEPT ![u] = "timedout"]
    /\ UNCHANGED <<requests, httpVars, RESEARCH_JOBS, syncReq, supVars, sseVars>>

McpNext ==
    \/ ToolPing
    \/ ToolStatus
    \/ ToolStartRejected
    \/ \E p \in Fields, u \in UUIDs : ToolStart(p, u)
    \/ \E u \in UUIDs : RtStart(u)
    \/ \E u \in UUIDs, m \in LogMsgs : RtLog(u, m)
    \/ \E u \in UUIDs, o \in BackendOutcomes : RtFinish(u, o)
    \/ \E u \in UUIDs : ToolReturn(u)
    \/ \E u \in UUIDs : ToolTimeout(u)

\* ------------------------------------------------- POST /deep-research/sync

\* The names app.py binds at module level before a request can arrive (its
\* imports, classes, functions and globals).
ModuleNames ==
    {"sys", "os", "asyncio", "uuid", "Dict", "Optional", "Any", "Enum",
     "FastAPI", "BackgroundTasks", "Request", "JSONResponse", "BaseModel",
     "Field", "run_deep_research", "JobStatus", "JobState", "JOBS",
     "ResearchRequest", "app", "CORSMiddleware", "background_deep_research",
     "is_job_id_missing", "return_simple_message", "Server", "Tool",
     "TextContent", "ImageContent", "EmbeddedResource", "types", "anyio",
     "EventSourceResponse", "RESEARCH_JOBS", "run_research_task", "mcp_server",
     "web_server_sessions"}

\* Reading a global name that is not bound raises NameError.
NameError(name) == name \notin ModuleNames

\* What deep_research_sync answers to a body with a prompt: line 203 reads
\* `logger`, which app.py never binds; the NameError is caught at line 215 and
\* answered as a failed research.
SyncFailedResp ==
    Resp("failed", None, <<"Research failed: ", "name 'logger' is not defined">>)

\* An empty prompt: "Error: Please provide a prompt."; nothing is changed.
SyncRejected ==
    /\ {b \in Bodies : BodyPrompt(b) = <<>>} /= {}
    /\ UNCHANGED vars

\* A prompt: the NameError of line 203 ends the handler before line 208, the
\* wait_for around run_deep_research: no run is started. `outlasts` says
\* whether the research the prompt asks for takes longer than the 50 s deadline.
SyncRequest(body, outlasts) ==
    /\ requests < MaxRequests
    /\ BodyPrompt(body) /= <<>>
    /\ NameError("logger")
    /\ requests' = requests + 1
    /\ syncReq' = (requests + 1 :> [outlasts |-> outlasts, run |-> "not_started",
                                    answer |-> SyncFailedResp]) @@ syncReq
    /\ UNCHANGED <<httpVars, mcpVars, supVars, sseVars>>

SyncNext ==
    \/ SyncRejected
    \/ \E b \in Bodies, late \in BOOLEAN : SyncRequest(b, late)

\* The job layer: no handler or task of it touches the supervisor or a session.
Next == HttpNext \/ McpNext \/ SyncNext

Spec == Init /\ [][Next]_vars

\* ------------------------------------- multi_agent_supervisor.supervisor_tools

\* The plan step (the last assistant message) carries at most MaxCalls tool calls.
MaxCalls == 4

\* Line 86: the limit the prompt of the planning step announces (line 105).
max_concurrent_researchers == 3

\* SUPERVISOR_TOOL_SPECS: the tools the supervisor model can call.
ToolNames == {"think_tool", "ConductResearch", "refine_draft_report", "ResearchComplete"}

\* A tool call of the assistant message: its name and its id (the i-th call of
\* the message has the id i).
ToolCall(name, i) == [name |-> name, id |-> ToString(i)]

Plans == UNION {[1..n -> ToolNames] : n \in 0..MaxCalls}

ToolCallsOf(plan) == [i \in DOMAIN plan |-> ToolCall(plan[i], i)]

AIMessage(tool_calls) == [type |-> "ai", tool_calls |-> tool_calls]

ToolMessage(content, name, tool_call_id) ==
    [type |-> "tool", content |-> content, name |-> name,
     tool_call_id |-> tool_call_id]

\* The supervisor_messages of earlier rounds: none, or one tool message.
Histories == {<<>>, <<ToolMessage(<<"earlier note">>, "think_tool", "0")>>}

\* The SupervisorState supervisor_tools is called with: no messages at all, or
\* a history followed by the assistant message of the plan step.
SupervisorStates ==
    {[supervisor_messages |-> sm, research_brief |-> <<"brief">>,
      draft_report |-> <<"draft">>, raw_notes |-> <<>>] :
        sm \in {<<>>} \cup {h \o <<AIMessage(ToolCallsOf(p))>> :
                               h \in Histories, p \in Plans}}

\* get_notes_from_tool_calls: the contents of the tool messages, in order.
get_notes_from_tool_calls(messages) ==
    LET IsTool(m) == m.type = "tool"
        tools == SelectSeq(messages, IsTool)
    IN [i \in DOMAIN tools |-> tools[i].content]

\* getattr(most_recent_message, "tool_calls", None) or []
MostRecentToolCalls(state) ==
    LET m == state.supervisor_messages[Len(state.supervisor_messages)]
    IN IF "tool_calls" \in DOMAIN m THEN m.tool_calls ELSE <<>>

\* [tc for tc in tool_calls if tc["name"] == name]
CallsNamed(tool_calls, name) ==
    LET Named(tc) == tc.name = name
    IN SelectSeq(tool_calls, Named)

\* "\n".join(texts)
RECURSIVE Join(_)
Join(texts) == IF texts = <<>> THEN <<>> ELSE Head(texts) \o Join(Tail(texts))

\* Lines 201-209: one tool message for each think_tool call.
ThinkMessages(tool_calls) ==
    LET calls == CallsNamed(tool_calls, "think_tool")
    IN [i \in DOMAIN calls |->
          ToolMessage(<<"Reflection recorded: ", calls[i].id>>,
                      calls[i].name, calls[i].id)]

\* What researcher_agent.ainvoke does for a call: it raises, or it returns a
\* state with compressed_research and raw_notes, or one without them.
ResearchResults(tc) ==
    {[kind |-> "raise"],
     [kind |-> "ok", res |-> [compressed_research |-> <<"summary of ", tc.id>>,
                              raw_notes |-> << <<"raw of ", tc.id>> >>]],
     [kind |-> "ok", res |-> [researcher_messages |-> <<>>]]}

\* res.get(key, default)
Get(res, key, default) == IF key \in DOMAIN res THEN res[key] ELSE default

\* Mutant of ResearchMessages: the results are taken in the order in which the
\* researchers ended.
ResearchMessages_CompletionOrder(results, calls) ==
    LET EndedAs(k) == CHOOSE i \in DOMAIN results : results[i].nth = k
    IN [i \in DOMAIN calls |->
           ToolMessage(Get(results[EndedAs(i)].res, "compressed_research",
                           <<"Error synthesizing research report">>),
                       calls[i].name, calls[i].id)]

\* Lines 226-236: one tool message for each ConductResearch call, zipped with
\* the results of gather, which are in the order of the calls.
ResearchMessages(results, calls) ==
    [i \in DOMAIN calls |->
        ToolMessage(Get(results[i].res, "compressed_research",
                        <<"Error synthesizing research report">>),
                    calls[i].name, calls[i].id)]

\* Line 237: all_raw_notes.
AllRawNotes(results) ==
    [i \in DOMAIN results |-> Join(Get(results[i].res, "raw_notes", <<>>))]

\* refine_draft_report.invoke: the draft rewritten from the findings.
refine_draft_report(research_brief, findings, draft_report) ==
    <<"refined from: ">> \o findings

\* Lines 240-250: the draft after the refine phase.
RefinedDraft(state, tool_calls, all_raw_notes) ==
    IF CallsNamed(tool_calls, "refine_draft_report") = <<>>
    THEN state.draft_report
    ELSE LET notes == get_notes_from_tool_calls(state.supervisor_messages)
                          \o all_raw_notes
         IN refine_draft_report(state.research_brief, Join(notes),
                                state.draft_report)

\* Lines 252-259: one tool message for each refine_draft_report call.
RefineMessages(tool_calls, draft_report) ==
    LET calls == CallsNamed(tool_calls, "refine_draft_report")
    IN [i \in DOMAIN calls |->
          ToolMessage(draft_report, calls[i].name, calls[i].id)]

\* Lines 165-172: the update returned when there are no messages.
GuardUpdate(state) ==
    [notes |-> <<>>, research_brief |-> state.research_brief,
     draft_report |-> state.draft_report]

\* Lines 179-186: the update returned when the model asked for no tool.
NoToolsUpdate(state) ==
    [notes |-> get_notes_from_tool_calls(state.supervisor_messages),
     research_brief |-> state.research_brief,
     draft_report |-> state.draft_report]

\* Lines 261-270: the update returned from `except Exception`.
ExceptUpdate(state, draft_report) ==
    [notes |-> get_notes_from_tool_calls(state.supervisor_messages),
     research_brief |-> state.research_brief,
     draft_report |-> draft_report]

\* Lines 273-284: the update returned at the end of the function.
FinalUpdate(state, messages, all_raw_notes, draft_report) ==
    [supervisor_messages |-> state.supervisor_messages \o messages,
     raw_notes |-> state.raw_notes \o all_raw_notes,
     notes |-> get_notes_from_tool_calls(state.supervisor_messages \o messages),
     research_brief |-> state.research_brief,
     draft_report |-> draft_report]

\* Mutant of Command: supervisor_tools sends the graph back to the supervisor.
Command_BackToSupervisor(ret, update) ==
    [ret |-> ret, goto |-> "supervisor", update |-> update]

\* Command(goto="__end__", update=...), and the return statement it came from.
Command(ret, update) == [ret |-> ret, goto |-> "__end__", update |-> update]

\* A call of supervisor_tools with some SupervisorState.
SupInit ==
    /\ JobInit
    /\ SseInit
    /\ supState \in SupervisorStates
    /\ supPc = "called"
    /\ tool_messages = <<>>
    /\ researchers = <<>>
    /\ supOut = [ret |-> "-"]

\* Lines 163-172: no messages.
SupGuard ==
    /\ supPc = "called"
    /\ supState.supervisor_messages = <<>>
    /\ supOut' = Command("guard", GuardUpdate(supState))
    /\ supPc' = "returned"
    /\ UNCHANGED <<jobVars, sseVars, supState, tool_messages, researchers>>

\* Lines 174-186: the last message asks for no tool.
SupNoTools ==
    /\ supPc = "called"
    /\ supState.supervisor_messages /= <<>>
    /\ MostRecentToolCalls(supState) = <<>>
    /\ supOut' = Command("no_tools", NoToolsUpdate(supState))
    /\ supPc' = "returned"
    /\ UNCHANGED <<jobVars, sseVars, supState, tool_messages, researchers>>

\* Lines 188-224: the think calls are answered, then the researchers are
\* created and the function awaits asyncio.gather.
SupDispatch ==
    /\ supPc = "called"
    /\ supState.supervisor_messages /= <<>>
    /\ LET tool_calls == MostRecentToolCalls(supState)
           calls == CallsNamed(tool_calls, "ConductResearch")
       IN /\ tool_calls /= <<>>
          /\ calls /= <<>>
          /\ tool_messages' = ThinkMessages(tool_calls)
          /\ researchers' = [i \in DOMAIN calls |-> [kind |-> "running"]]
    /\ supPc' = "gathering"
    /\ UNCHANGED <<jobVars, sseVars, supState, supOut>>

\* Lines 188-284 without a ConductResearch call: think, refine, return; there
\* is no await on the way.
SupRunThrough ==
    /\ supPc = "called"
    /\ supState.supervisor_messages /= <<>>
    /\ LET tool_calls == MostRecentToolCalls(supState)
           draft == RefinedDraft(supState, tool_calls, <<>>)
           messages == ThinkMessages(tool_calls) \o RefineMessages(tool_calls, draft)
       IN /\ tool_calls /= <<>>
          /\ CallsNamed(tool_calls, "ConductResearch") = <<>>
          /\ tool_messages' = messages
          /\ supOut' = Command("final", FinalUpdate(supState, messages, <<>>, draft))
    /\ supPc' = "returned"
    /\ UNCHANGED <<jobVars, sseVars, supState, researchers>>

\* How many of the researchers have ended.
Ended(rs) == Cardinality({i \in DOMAIN rs : rs[i].kind /= "running"})

\* One researcher_agent.ainvoke ends, as the nth of its step. gather does not
\* cancel the others when one raises: they go on, also after supervisor_tools
\* has returned and after the graph has ended.
ResearcherEnds(i, r) ==
    /\ supPc \in {"gathering", "returned", "END"}
    /\ i \in DOMAIN researchers
    /\ researchers[i].kind = "running"
    /\ r \in ResearchResults(CallsNamed(MostRecentToolCalls(supState),
                                        "ConductResearch")[i])
    /\ researchers' = [researchers EXCEPT
                         ![i] = r @@ [nth |-> Ended(researchers) + 1]]
    /\ UNCHANGED <<jobVars, sseVars, supState, supPc, tool_messages, supOut>>

\* Line 224 raises: gather (without return_exceptions) passes on the first
\* exception of a researcher; lines 261-270 return.
SupGatherRaises ==
    /\ supPc = "gathering"
    /\ \E i \in DOMAIN researchers : researchers[i].kind = "raise"
    /\ supOut' = Command("except", ExceptUpdate(supState, supState.draft_report))
    /\ supPc' = "returned"
    /\ UNCHANGED <<jobVars, sseVars, supState, tool_messages, researchers>>

\* Line 224 returns: every researcher returned; lines 226-284.
SupGatherReturns ==
    /\ supPc = "gathering"
    /\ \A i \in DOMAIN researchers : researchers[i].kind = "ok"
    /\ LET tool_calls == MostRecentToolCalls(supState)
           calls == CallsNamed(tool_calls, "ConductResearch")
           all_raw_notes == AllRawNotes(researchers)
           draft == RefinedDraft(supState, tool_calls, all_raw_notes)
           messages == tool_messages \o ResearchMessages(researchers, calls)
                          \o RefineMessages(tool_calls, draft)
       IN /\ tool_messages' = messages
          /\ supOut' = Command("final",
                               FinalUpdate(supState, messages, all_raw_notes, draft))
    /\ supPc' = "returned"
    /\ UNCHANGED <<jobVars, sseVars, supState, researchers>>

SupNext ==
    \/ SupGuard
    \/ SupNoTools
    \/ SupDispatch
    \/ SupRunThrough
    \/ \E i \in 1..MaxCalls :
          \E r \in UNION {ResearchResults(ToolCall("ConductResearch", j)) :
                              j \in 1..MaxCalls} :
             ResearcherEnds(i, r)
    \/ SupGatherRaises
    \/ SupGatherReturns

SupSpec == SupInit /\ [][SupNext]_vars

\* ---------------------------------------------------------------------------
\* supervisor_agent: the compiled graph START -> supervisor ->
\* supervisor_tools -> END (lines 289-298).

\* The state the subgraph is invoked with: a history without the assistant
\* message of this round.
GraphStates ==
    {[supervisor_messages |-> h, research_brief |-> <<"brief">>,
      draft_report |-> <<"draft">>, raw_notes |-> <<>>] : h \in Histories}

GraphInit ==
    /\ JobInit
    /\ SseInit
    /\ supState \in GraphStates
    /\ supPc = "START"
    /\ tool_messages = <<>>
    /\ researchers = <<>>
    /\ supOut = [ret |-> "-"]

\* add_edge(START, "supervisor"): the supervisor node is entered and awaits the
\* model (line 134).
GraphStart ==
    /\ supPc = "START"
    /\ supPc' = "supervisor"
    /\ UNCHANGED <<jobVars, sseVars, supState, tool_messages, researchers, supOut>>

\* Lines 134-145: the model answers with an assistant message, the node
\* returns Command(goto="supervisor_tools") with the history and the answer,
\* and supervisor_tools is called.
Supervisor(plan) ==
    /\ supPc = "supervisor"
    /\ LET response == AIMessage(ToolCallsOf(plan))
           new_history == supState.supervisor_messages \o <<response>>
       IN supState' = [supState EXCEPT !.supervisor_messages = new_history]
    /\ supPc' = "called"
    /\ UNCHANGED <<jobVars, sseVars, tool_messages, researchers, supOut>>

\* Line 134 raises: the exception leaves the node and the invocation.
SupervisorRaises ==
    /\ supPc = "supervisor"
    /\ supPc' = "raised"
    /\ UNCHANGED <<jobVars, sseVars, supState, tool_messages, researchers, supOut>>

\* The graph follows the goto of the Command supervisor_tools returned.
GraphRoute ==
    /\ supPc = "returned"
    /\ supPc' = IF supOut.goto = "__end__" THEN "END" ELSE supOut.goto
    /\ UNCHANGED <<jobVars, sseVars, supState, tool_messages, researchers, supOut>>

GraphNext ==
    \/ GraphStart
    \/ \E plan \in Plans : Supervisor(plan)
    \/ SupervisorRaises
    \/ SupNoTools
    \/ SupDispatch
    \/ SupRunThrough
    \/ \E i \in 1..MaxCalls :
          \E r \in UNION {ResearchResults(ToolCall("ConductResearch", j)) :
                              j \in 1..MaxCalls} :
             ResearcherEnds(i, r)
    \/ SupGatherRaises
    \/ SupGatherReturns
    \/ GraphRoute

GraphSpec == GraphInit /\ [][GraphNext]_vars

\* ------------------------------------------------ GET /sse and POST /messages

\* At most MaxSessions SSE connections are opened.
MaxSessions == 2

\* At most MaxPosts requests are made to /messages.
MaxPosts == 3

\* The size of the buffer of a session's input stream: the code creates it
\* with anyio.create_memory_object_stream(100); the streams here hold
\* MailboxSize messages.
MailboxSize == 2

\* str(uuid.uuid4()) of handle_sse: the n-th connection has the session id n.
SessionIds == 1..MaxSessions

\* The sessionId a client posts to: one that was never issued (0), or an id.
PostedIds == {0} \cup SessionIds

\* A connection after handle_sse returned: the generator is created and not
\* started, both streams are empty and open, there is no server task.
NewSession ==
    [gen |-> "created", inbox |-> 0, recv_open |-> TRUE, out_open |-> TRUE,
     server |-> "none", events |-> <<>>, pending_at_close |-> 0,
     loop_left_by |-> "-"]

\* handle_sse: the streams are created, the id is registered and the response
\* with the generator is returned.
SseOpen(sid) ==
    /\ sid \in SessionIds
    /\ sid = Len(sessions) + 1
    /\ web_server_sessions' = web_server_sessions \cup {sid}
    /\ sessions' = Append(sessions, NewSession)
    /\ UNCHANGED <<jobVars, supVars, posts>>

\* sse_generator up to its first yield (line 401): the endpoint event.
GenEndpoint(sid) ==
    /\ sid \in DOMAIN sessions
    /\ sessions[sid].gen = "created"
    /\ sessions' = [sessions EXCEPT ![sid].gen = "endpoint",
                                    ![sid].events = Append(@, "endpoint")]
    /\ UNCHANGED <<jobVars, supVars, web_server_sessions, posts>>

\* sse_generator resumed after the endpoint event: the server task is created
\* (line 408) and the generator waits for the output stream (line 420).
GenStartServer(sid) ==
    /\ sid \in DOMAIN sessions
    /\ sessions[sid].gen = "endpoint"
    /\ sessions' = [sessions EXCEPT ![sid].gen = "streaming",
                                    ![sid].server = "running"]
    /\ UNCHANGED <<jobVars, supVars, web_server_sessions, posts>>

\* mcp_server.run takes one message from the input stream and handles it.
ServerReceive(sid) ==
    /\ sid \in DOMAIN sessions
    /\ sessions[sid].server = "running"
    /\ sessions[sid].inbox > 0
    /\ sessions' = [sessions EXCEPT ![sid].inbox = @ - 1]
    /\ UNCHANGED <<jobVars, supVars, web_server_sessions, posts>>

\* mcp_server.run ends with an exception: the task is done and holds it.
\* Whether the library closes its ends of the two streams on that way out is
\* its business: either is possible.
ServerFails(sid, closes) ==
    /\ sid \in DOMAIN sessions
    /\ sessions[sid].server = "running"
    /\ sessions' = [sessions EXCEPT ![sid].server = "failed",
                                    ![sid].out_open = ~closes,
                                    ![sid].recv_open = ~closes]
    /\ UNCHANGED <<jobVars, supVars, web_server_sessions, posts>>

\* Mutant of Finally: the teardown empties the registry.
Finally_ClearsRegistry(sess, registry, sid) ==
    [session |-> IF sess.server = "running"
                 THEN [sess EXCEPT !.gen = "awaiting_server",
                                   !.server = "cancelling",
                                   !.pending_at_close = sess.inbox]
                 ELSE [sess EXCEPT !.gen = "raised",
                                   !.pending_at_close = sess.inbox],
     registry |-> {}]

\* Lines 448-453: server_task.cancel() and the removal from the registry, up
\* to `await server_task`. A running task is cancelled and the generator
\* waits for it; a task that has failed is done already: cancel() does
\* nothing and `await server_task` raises the task's exception at once, out
\* of the generator.
Finally(sess, registry, sid) ==
    [session |-> IF sess.server = "running"
                 THEN [sess EXCEPT !.gen = "awaiting_server",
                                   !.server = "cancelling",
                                   !.pending_at_close = sess.inbox]
                 ELSE [sess EXCEPT !.gen = "raised",
                                   !.pending_at_close = sess.inbox],
     registry |-> IF sid \in registry THEN registry \ {sid} ELSE registry]

\* The output stream has ended (its send end is closed): the loop of line 420
\* is left without an exception, then finally.
GenOutputEnds(sid) ==
    /\ sid \in DOMAIN sessions
    /\ sessions[sid].gen = "streaming"
    /\ ~sessions[sid].out_open
    /\ LET f == Finally([sessions[sid] EXCEPT !.loop_left_by = "end of stream"],
                        web_server_sessions, sid)
       IN /\ sessions' = [sessions EXCEPT ![sid] = f.session]
          /\ web_server_sessions' = f.registry
    /\ UNCHANGED <<jobVars, supVars, posts>>

\* The client disconnects before the generator has entered its try block (it
\* was not started, or it is suspended at the yield of line 401): the
\* generator is closed there and its finally block is not run.
DisconnectEarly(sid) ==
    /\ sid \in DOMAIN sessions
    /\ sessions[sid].gen \in {"created", "endpoint"}
    /\ sessions' = [sessions EXCEPT ![sid].gen = "abandoned"]
    /\ UNCHANGED <<jobVars, supVars, web_server_sessions, posts>>

\* The client disconnects while the generator waits for the output stream:
\* CancelledError (line 443), then finally.
Disconnect(sid) ==
    /\ sid \in DOMAIN sessions
    /\ sessions[sid].gen = "streaming"
    /\ LET f == Finally([sessions[sid] EXCEPT !.loop_left_by = "CancelledError"],
                        web_server_sessions, sid)
       IN /\ sessions' = [sessions EXCEPT ![sid] = f.session]
          /\ web_server_sessions' = f.registry
    /\ UNCHANGED <<jobVars, supVars, posts>>

\* An exception in the loop of the generator (lines 445-447): the error event
\* is yielded.
GenError(sid) ==
    /\ sid \in DOMAIN sessions
    /\ sessions[sid].gen = "streaming"
    /\ sessions' = [sessions EXCEPT ![sid].gen = "error_event",
                                    ![sid].loop_left_by = "Exception",
                                    ![sid].events = Append(@, "error")]
    /\ UNCHANGED <<jobVars, supVars, web_server_sessions, posts>>

\* The generator leaves the yield of line 447 (resumed or closed): finally.
GenErrorFinally(sid) ==
    /\ sid \in DOMAIN sessions
    /\ sessions[sid].gen = "error_event"
    /\ LET f == Finally(sessions[sid], web_server_sessions, sid)
       IN /\ sessions' = [sessions EXCEPT ![sid] = f.session]
          /\ web_server_sessions' = f.registry
    /\ UNCHANGED <<jobVars, supVars, posts>>

\* The cancelled server task ends and `await server_task` returns (lines
\* 452-455). Whether mcp_server.run closes the receive end of the input stream
\* on its way out is the library's business: either is possible.
ServerCancelled(sid, closes) ==
    /\ sid \in DOMAIN sessions
    /\ sessions[sid].gen = "awaiting_server"
    /\ sessions' = [sessions EXCEPT ![sid].gen = "closed",
                                    ![sid].server = "cancelled",
                                    ![sid].recv_open = ~closes]
    /\ UNCHANGED <<jobVars, supVars, web_server_sessions, posts>>

\* A handle_messages handler: the session id it was called with, where it
\* stands, what it answered, and what held when it did: whether the id was
\* registered and whether the message was put into the input stream.
Post(sid, pc, answer, registered, enqueued) ==
    [sid |-> sid, pc |-> pc, answer |-> answer, registered |-> registered,
     enqueued |-> enqueued]

\* Lines 467-473: no sessionId in the request: 400; nothing is changed.
PostWithoutSessionId == UNCHANGED vars

\* Lines 475-477: the id is not registered: 404 "Session not found".
PostNotFound(sid) ==
    /\ Len(posts) < MaxPosts
    /\ sid \in PostedIds
    /\ sid \notin web_server_sessions
    /\ posts' = Append(posts, Post(sid, "returned", "404 Session not found",
                                   FALSE, FALSE))
    /\ UNCHANGED <<jobVars, supVars, web_server_sessions, sessions>>

\* Lines 475-480: the id is registered: the handler holds the session's
\* input_send and awaits the request body.
PostLookup(sid) ==
    /\ Len(posts) < MaxPosts
    /\ sid \in PostedIds
    /\ sid \in web_server_sessions
    /\ posts' = Append(posts, Post(sid, "body", "-", TRUE, FALSE))
    /\ UNCHANGED <<jobVars, supVars, web_server_sessions, sessions>>

\* input_sender.send(message) (line 493) on the stream of session sess:
\* BrokenResourceError when the receive end is closed, the message is
\* buffered when there is room, and the sender waits otherwise.
Send(sess) ==
    IF ~sess.recv_open THEN "broken"
    ELSE IF sess.inbox < MailboxSize THEN "buffered"
    ELSE "wait"

\* Lines 480-498: the body has arrived; the message is sent, or the handler
\* waits in send, or the exception of send is answered with 500.
PostSend(n) ==
    /\ n \in DOMAIN posts
    /\ posts[n].pc \in {"body", "blocked"}
    /\ LET sid == posts[n].sid
           registered == sid \in web_server_sessions
           outcome == Send(sessions[sid])
       IN /\ posts[n].pc = "blocked" => outcome /= "wait"
          /\ posts' = [posts EXCEPT ![n] =
                IF outcome = "broken"
                THEN Post(sid, "returned", "500", registered, FALSE)
                ELSE IF outcome = "buffered"
                THEN Post(sid, "returned", "200 accepted", registered, TRUE)
                ELSE Post(sid, "blocked", "-", registered, FALSE)]
          /\ sessions' = IF outcome = "buffered"
                         THEN [sessions EXCEPT ![sid].inbox = @ + 1]
                         ELSE sessions
    /\ UNCHANGED <<jobVars, supVars, web_server_sessions>>

SseNext ==
    \/ \E sid \in SessionIds : SseOpen(sid)
    \/ \E sid \in SessionIds : GenEndpoint(sid)
    \/ \E sid \in SessionIds : GenStartServer(sid)
    \/ \E sid \in SessionIds : ServerReceive(sid)
    \/ \E sid \in SessionIds : DisconnectEarly(sid)
    \/ \E sid \in SessionIds : Disconnect(sid)
    \/ \E sid \in SessionIds : GenError(sid)
    \/ \E sid \in SessionIds : GenErrorFinally(sid)
    \/ \E sid \in SessionIds, closes \in BOOLEAN : ServerCancelled(sid, closes)
    \/ \E sid \in SessionIds, closes \in BOOLEAN : ServerFails(sid, closes)
    \/ \E sid \in SessionIds : GenOutputEnds(sid)
    \/ PostWithoutSessionId
    \/ \E sid \in PostedIds : PostNotFound(sid)
    \/ \E sid \in PostedIds : PostLookup(sid)
    \/ \E n \in 1..MaxPosts : PostSend(n)

SseSpec == Init /\ [][SseNext]_vars

\* The life of the connections alone, without /messages: no post changes the
\* registry, a generator or a server task. The event loop runs a cancelled
\* task to its end, and a generator that is being closed to the end of its
\* finally block.
SseLifeNext ==
    \/ \E sid \in SessionIds : SseOpen(sid)
    \/ \E sid \in SessionIds : GenEndpoint(sid)
    \/ \E sid \in SessionIds : GenStartServer(sid)
    \/ \E sid \in SessionIds : DisconnectEarly(sid)
    \/ \E sid \in SessionIds : Disconnect(sid)
    \/ \E sid \in SessionIds : GenError(sid)
    \/ \E sid \in SessionIds : GenErrorFinally(sid)
    \/ \E sid \in SessionIds, closes \in BOOLEAN : ServerCancelled(sid, closes)
    \/ \E sid \in SessionIds, closes \in BOOLEAN : ServerFails(sid, closes)
    \/ \E sid \in SessionIds : GenOutputEnds(sid)

SseLifeFairness ==
    \A sid \in SessionIds :
       /\ WF_vars(\E closes \in BOOLEAN : ServerCancelled(sid, closes))
       /\ WF_vars(GenErrorFinally(sid))
       /\ WF_vars(GenOutputEnds(sid))

SseLifeSpec == Init /\ [][SseLifeNext]_vars /\ SseLifeFairness

\* ----------------------------------------------------------------- claims

TerminalHttp(job) == job.status \in {DONE, FAILED}

TerminalMcp(job) == job.status \in {"completed", "failed"}

C2_ErrorIffFailed ==
    /\ \A id \in DOMAIN JOBS :
          (JOBS[id].error /= None) <=> (JOBS[id].status = FAILED)
    /\ \A id \in DOMAIN RESEARCH_JOBS :
          (RESEARCH_JOBS[id].error /= None)
              <=> (RESEARCH_JOBS[id].status = "failed")

\* C3, as stated: once a job is Done or Failed, no step changes its status,
\* result or error, and a poll answers after the step what it answered before.
C3_TerminalIsFinal ==
    [][/\ \A id \in DOMAIN JOBS :
             TerminalHttp(JOBS[id])
                => /\ JOBS'[id] = JOBS[id]
                   /\ HttpPollResp(id, JOBS'[id]) = HttpPollResp(id, JOBS[id])
       /\ \A id \in DOMAIN RESEARCH_JOBS :
             TerminalMcp(RESEARCH_JOBS[id])
                => /\ RESEARCH_JOBS'[id].status = RESEARCH_JOBS[id].status
                   /\ RESEARCH_JOBS'[id].result = RESEARCH_JOBS[id].result
                   /\ RESEARCH_JOBS'[id].error = RESEARCH_JOBS[id].error
                   /\ ToolStatusResp(id, RESEARCH_JOBS'[id])
                        = ToolStatusResp(id, RESEARCH_JOBS[id])]_vars

\* The status order of the HTTP store: a record is first stored as QUEUED, and
\* its status changes only from QUEUED to RUNNING and from RUNNING to DONE or
\* FAILED.
HttpOrder ==
    /\ \A id \in DOMAIN JOBS' \ DOMAIN JOBS : JOBS'[id].status = QUEUED
    /\ \A id \in DOMAIN JOBS :
          JOBS'[id].status /= JOBS[id].status
             => \/ JOBS[id].status = QUEUED /\ JOBS'[id].status = RUNNING
                \/ JOBS[id].status = RUNNING /\ JOBS'[id].status \in {DONE, FAILED}

C5_FreshJobId ==
    [][/\ \A u \in DOMAIN bgTask' \ DOMAIN bgTask : UuidStr(u) \notin DOMAIN JOBS
       /\ \A u \in DOMAIN toolCall' \ DOMAIN toolCall :
             Trunc8(u) \notin DOMAIN RESEARCH_JOBS
       /\ \A u \in DOMAIN rtTask :
             (rtTask[u].pc = "created" /\ rtTask'[u].pc = "awaiting")
                => Trunc8(u) \notin DOMAIN RESEARCH_JOBS]_vars

\* C6, as stated: an id that was returned to a client has a record in the
\* store, and until the backend of that job has completed a poll of the id
\* answers "in progress" (queued or running).
C6_PollAfterCreate ==
    /\ \A u \in DOMAIN bgTask :
          /\ UuidStr(u) \in DOMAIN JOBS
          /\ bgTask[u].pc /= "finished"
                => HttpPollResp(UuidStr(u), JOBS[UuidStr(u)]).kind = "in_progress"
    /\ \A u \in DOMAIN toolCall :
          toolCall[u] = "timedout"
             => /\ Trunc8(u) \in DOMAIN RESEARCH_JOBS
                /\ rtTask[u].pc /= "finished"
                      => ToolStatusAnswer(Trunc8(u)).kind = "running"

\* C7, as stated: in both stores a Failed job's result is a non-empty text.
C7_FailedHasResult ==
    /\ \A id \in DOMAIN JOBS :
          JOBS[id].status = FAILED => Truthy(JOBS[id].result)
    /\ \A id \in DOMAIN RESEARCH_JOBS :
          RESEARCH_JOBS[id].status = "failed" => Truthy(RESEARCH_JOBS[id].result)

\* C8, as stated: a job whose backend call raised or returned malformed data
\* has ended Failed.
C8_BackendFailureIsFailed ==
    /\ \A u \in DOMAIN bgTask :
          bgTask[u].backend \in {"raised", "malformed"}
             => JOBS[UuidStr(u)].status = FAILED
    /\ \A u \in DOMAIN rtTask :
          rtTask[u].backend \in {"raised", "malformed"}
             => RESEARCH_JOBS[Trunc8(u)].status = "failed"

\* C9, as stated: after a deadline-bounded wait has elapsed, the run it waited
\* for is still executing or has completed: for the 5 s wait of the
\* deep_research tool, and for a /deep-research/sync request whose research
\* outlasts the 50 s deadline.
C9_TimeoutKeepsRun ==
    /\ \A u \in DOMAIN toolCall :
          toolCall[u] = "timedout" => rtTask[u].pc \in {"awaiting", "finished"}
    /\ \A n \in DOMAIN syncReq :
          syncReq[n].outlasts => syncReq[n].run \in {"running", "completed"}

\* C10, as stated: a request whose deadline elapses first is answered "still
\* running" with a job id, and that id is one the job store can be polled for.
C10_StillRunningHasJobId ==
    /\ \A u \in DOMAIN toolCall :
          toolCall[u] = "timedout"
             => StillRunningResp(Trunc8(u)).job \in DOMAIN RESEARCH_JOBS
    /\ \A n \in DOMAIN syncReq :
          syncReq[n].outlasts
             => /\ syncReq[n].answer.kind = "still_running"
                /\ syncReq[n].answer.job /= None

\* The HTTP job layer alone, on an event loop that runs every task that was
\* created (asyncio.create_task schedules its first step) and with a backend
\* that terminates: a started background task resumes from its await.
HttpFairness ==
    /\ \A u \in UUIDs : WF_vars(BgStart(u))
    /\ \A u \in UUIDs : WF_vars(\E o \in BackendOutcomes : BgFinish(u, o))

HttpSpec == Init /\ [][HttpNext]_vars /\ HttpFairness

\* C11: every job /deep-research created reaches Done or Failed; until its
\* task has finished a poll of its id answers "in progress", and once the
\* backend has returned a report the poll answers Done with a non-empty result.
C11_JobReachesTerminal ==
    /\ \A u \in UUIDs :
          (u \in DOMAIN bgTask) ~> (u \in DOMAIN bgTask /\ TerminalHttp(JOBS[UuidStr(u)]))
    /\ [](\A u \in DOMAIN bgTask :
             LET poll == HttpPollResp(UuidStr(u), JOBS[UuidStr(u)])
             IN /\ bgTask[u].pc /= "finished" => poll.kind = "in_progress"
                /\ bgTask[u].backend = "report"
                      => /\ JOBS[UuidStr(u)].status = DONE
                         /\ poll.kind = "done"
                         /\ Truthy(poll.text))

\* C11, witness: a job whose backend returned a report is Done, and its poll
\* answers that report.
C11_Witness ==
    \E u \in DOMAIN bgTask :
       /\ bgTask[u].backend = "report"
       /\ HttpPollResp(UuidStr(u), JOBS[UuidStr(u)]).kind = "done"
       /\ HttpPollResp(UuidStr(u), JOBS[UuidStr(u)]).text = <<"draft text">>

\* A prompt that is missing, empty or made of blanks only.
BlankPrompt(p) == Strip(Or(p, <<>>)) = <<>>

\* C12, as stated: no step starts a job, a task or a run from a request whose
\* prompt is missing, empty or blank, at any of the three entry points.
C12_BlankPromptRejected ==
    [][/\ \A b \in Bodies, u \in UUIDs :
             BodyPrompt(b) = <<>> => ~HttpStart(b, u)
       /\ \A b \in Bodies, late \in BOOLEAN :
             BodyPrompt(b) = <<>> => ~SyncRequest(b, late)
       /\ \A p \in Fields, u \in UUIDs :
             BlankPrompt(p) => ~ToolStart(p, u)]_vars

\* A body that polls the job id j.
PollOf(j) == [job_id |-> j, prompt |-> None, query |-> None]

\* C13: a poll of /deep-research answers "Job ID not found" exactly when the
\* id it carries, stripped, is not a key of JOBS, and get_research_status
\* answers "Job not found" exactly when its id is not a key of RESEARCH_JOBS.
\* Both handlers only read the store (HttpPoll and ToolStatus change nothing).
C13_UnknownIdNotFound ==
    /\ \A j \in RawJobIds :
          ~is_job_id_missing(j)
             => ( HttpReadAnswer(PollOf(j)).kind = "not_found"
                     <=> Strip(j) \notin DOMAIN JOBS )
    /\ \A a \in StatusArgs :
          Truthy(a)
             => ( ToolStatusAnswer(a).kind = "not_found"
                     <=> a \notin DOMAIN RESEARCH_JOBS )

\* C13, witness: both stores hold a job, and a poll of another id is answered
\* "not found" by each of them.
C13_Witness ==
    /\ \E j \in RawJobIds :
          /\ Strip(j) \in UUIDs \ DOMAIN JOBS
          /\ HttpReadAnswer(PollOf(j)).kind = "not_found"
    /\ \E k \in DOMAIN JOBS : HttpReadAnswer(PollOf(k)).kind = "in_progress"
    /\ RESEARCH_JOBS /= <<>>
    /\ ToolStatusAnswer(<<"a">>).kind = "not_found"

\* The tool messages the returned update adds to supervisor_messages: the
\* entries of this step's aggregate, each with its tool_call_id. An update
\* without supervisor_messages adds none.
StepMessages ==
    IF "supervisor_messages" \in DOMAIN supOut.update
    THEN SubSeq(supOut.update.supervisor_messages,
                Len(supState.supervisor_messages) + 1,
                Len(supOut.update.supervisor_messages))
    ELSE <<>>

\* The notes of the returned update, as a set.
ReturnedNotes == {supOut.update.notes[j] : j \in DOMAIN supOut.update.notes}

\* C14, as stated: when supervisor_tools has returned, all N researchers of
\* the step have ended and fewer than N of them failed, the output has exactly
\* N research entries, in issue order, each tagged with its call's id, and the
\* summary of every researcher that succeeded is among the returned notes.
C14_PartialResultsAggregated ==
    ( /\ supPc = "returned"
      /\ researchers /= <<>>
      /\ \A i \in DOMAIN researchers : researchers[i].kind /= "running"
      /\ \E i \in DOMAIN researchers : researchers[i].kind = "ok" )
       => LET calls == CallsNamed(MostRecentToolCalls(supState), "ConductResearch")
              entries == CallsNamed(StepMessages, "ConductResearch")
          IN /\ Len(entries) = Len(calls)
             /\ \A i \in DOMAIN calls :
                   /\ entries[i].tool_call_id = calls[i].id
                   /\ researchers[i].kind = "ok"
                         => /\ entries[i].content
                                 = Get(researchers[i].res, "compressed_research",
                                       <<"Error synthesizing research report">>)
                            /\ entries[i].content \in ReturnedNotes

\* C15, as stated: when the step completed, the entries of its output are in
\* the order in which the think, research and refine calls were issued.
C15_IssueOrder ==
    (supPc = "returned" /\ supOut.ret = "final")
       => LET Noted(tc) == tc.name \in {"think_tool", "ConductResearch",
                                        "refine_draft_report"}
              issued == SelectSeq(MostRecentToolCalls(supState), Noted)
          IN [i \in DOMAIN StepMessages |-> StepMessages[i].tool_call_id]
                = [i \in DOMAIN issued |-> issued[i].id]

\* C16, as stated: when supervisor_tools returned from its exception handler,
\* every note the step had produced before the exception is among the
\* returned notes.
C16_PartialAggregateReturned ==
    (supPc = "returned" /\ supOut.ret = "except")
       => \A k \in DOMAIN tool_messages : tool_messages[k].content \in ReturnedNotes

\* The state of a step with the same history whose plan issued no instruction.
NoOpState(state) ==
    [state EXCEPT !.supervisor_messages =
        SubSeq(@, 1, Len(@) - 1) \o <<AIMessage(<<>>)>>]

\* C17, as stated: the value returned from the exception handler differs from
\* the value a step without instructions returns.
C17_EarlyEndIsExplicit ==
    (supPc = "returned" /\ supOut.ret = "except")
       => supOut.update /= NoToolsUpdate(NoOpState(supState))

\* C18, as stated: a post that is answered while its session id is not in the
\* registry (never issued, or removed by the session's teardown) is answered
\* "Session not found" and puts nothing into an input stream.
C18_UnregisteredIsNotFound ==
    \A n \in DOMAIN posts :
       (posts[n].pc = "returned" /\ ~posts[n].registered)
          => /\ posts[n].answer = "404 Session not found"
             /\ ~posts[n].enqueued

\* C19, as stated: a post to a session whose input stream is full returns to
\* its caller: no handler waits in send for room in the stream.
C19_FullMailboxDoesNotBlock ==
    \A n \in DOMAIN posts : posts[n].pc /= "blocked"

\* C20, as stated: when a session is torn down with accepted messages still
\* in its input stream, an error event reporting them was put on its outbound
\* stream.
C20_NoSilentDrop ==
    \A sid \in DOMAIN sessions :
       ( /\ sessions[sid].gen \in {"awaiting_server", "closed"}
         /\ sessions[sid].pending_at_close > 0 )
          => \E k \in DOMAIN sessions[sid].events : sessions[sid].events[k] = "error"

\* C21: a step takes out of the registry at most the id of the one session
\* whose generator runs its finally block in that step; an id that is out of
\* the registry never comes back, so no id is removed twice; and a session
\* whose finally block has run is out of the registry.
C21_RemovedOnce ==
    /\ [][/\ \A sid \in web_server_sessions \ web_server_sessions' :
                /\ sessions[sid].gen \in {"streaming", "error_event"}
                /\ sessions'[sid].gen \in {"awaiting_server", "raised"}
          /\ \A sid \in DOMAIN sessions :
                sid \notin web_server_sessions => sid \notin web_server_sessions']_vars
    /\ [](\A sid \in DOMAIN sessions :
             sessions[sid].gen \in {"awaiting_server", "closed", "raised"}
                => sid \notin web_server_sessions)

\* C21, witness: one session has been torn down and is out of the registry,
\* while the other one is still registered.
C21_Witness ==
    /\ Len(sessions) = 2
    /\ \E sid \in DOMAIN sessions :
          /\ sessions[sid].gen = "closed"
          /\ web_server_sessions = DOMAIN sessions \ {sid}

\* C22: when the event stream of a session has ended because its server task
\* ended with an exception, the last event of the stream is an error event.
C22_ServerFailureReported ==
    \A sid \in DOMAIN sessions :
       (sessions[sid].server = "failed" /\ sessions[sid].loop_left_by = "end of stream")
          => /\ sessions[sid].events /= <<>>
             /\ sessions[sid].events[Len(sessions[sid].events)] = "error"

\* C29: an id is out of the registry only when the server task of its session
\* has been awaited to its end: no session is out of the registry while its
\* generator still waits for the cancelled task.
C29_AwaitedBeforeForgotten ==
    \A sid \in DOMAIN sessions :
       sid \notin web_server_sessions => sessions[sid].server /= "cancelling"

\* C30: a session whose connection has closed, at whatever point of its life,
\* is eventually out of the registry.
C30_ClosedIsEventuallyRemoved ==
    \A sid \in SessionIds :
       (sid \in DOMAIN sessions
          /\ sessions[sid].gen \in {"abandoned", "awaiting_server", "closed", "raised"})
       ~> (sid \notin web_server_sessions)

\* C23: a /deep-research/sync request whose research fits the 50 s deadline
\* is answered after its research has run, with the completed outcome and not
\* with a failure message.
C23_SyncReturnsReport ==
    \A n \in DOMAIN syncReq :
       ~syncReq[n].outlasts
          => /\ syncReq[n].run = "completed"
             /\ syncReq[n].answer.kind = "completed"

\* C24: in every state a poll handler can run in, no stored record is torn:
\* a record with status Done (completed) has its result set and a record with
\* status Failed (failed) has its error set, in JOBS and in RESEARCH_JOBS.
C24_NoTornRecord ==
    /\ \A j \in DOMAIN JOBS :
          /\ JOBS[j].status = DONE => JOBS[j].result /= None
          /\ JOBS[j].status = FAILED => JOBS[j].error /= None
    /\ \A j \in DOMAIN RESEARCH_JOBS :
          /\ RESEARCH_JOBS[j].status = "completed" => RESEARCH_JOBS[j].result /= None
          /\ RESEARCH_JOBS[j].status = "failed" => RESEARCH_JOBS[j].error /= None

\* C24, witness: a record has reached a terminal status while the executor
\* task of another job is suspended in its research, in either store.
C24_Witness ==
    \/ /\ \E j \in DOMAIN JOBS : JOBS[j].status \in {DONE, FAILED}
       /\ \E u \in DOMAIN rtTask : rtTask[u].pc = "awaiting"
    \/ /\ \E j \in DOMAIN RESEARCH_JOBS :
             RESEARCH_JOBS[j].status \in {"completed", "failed"}
       /\ \E u \in DOMAIN bgTask : bgTask[u].pc = "awaiting"

\* C25: when supervisor_tools has returned, no researcher of its step is
\* still running.
C25_ReturnsAfterAllEnded ==
    supPc = "returned"
       => \A i \in DOMAIN researchers : researchers[i].kind /= "running"

\* C26: when every researcher of a step returned, the research messages of
\* the output are in the order of the ConductResearch calls, each with the id
\* of its call and the summary of the researcher of that call, and the new
\* raw notes are in the order of the calls too, in whatever order the
\* researchers ended.
C26_IssueOrderWhenAllSucceed ==
    (supPc = "returned" /\ supOut.ret = "final" /\ researchers /= <<>>)
       => LET calls == CallsNamed(MostRecentToolCalls(supState), "ConductResearch")
              IsResearch(m) == m.type = "tool" /\ m.name = "ConductResearch"
              out == SelectSeq(supOut.update.supervisor_messages, IsResearch)
              raw == supOut.update.raw_notes
              old == Len(supState.raw_notes)
          IN /\ Len(out) = Len(calls)
             /\ Len(raw) = old + Len(calls)
             /\ \A i \in DOMAIN calls :
                   /\ out[i].tool_call_id = calls[i].id
                   /\ out[i].content \in {<<"summary of ", calls[i].id>>,
                                          <<"Error synthesizing research report">>}
                   /\ out[i].content = Get(researchers[i].res, "compressed_research",
                                           <<"Error synthesizing research report">>)
                   /\ raw[old + i] \in {<<"raw of ", calls[i].id>>, <<>>}
                   /\ raw[old + i] = Join(Get(researchers[i].res, "raw_notes", <<>>))

\* C26, witness: two researchers returned their summaries, the second call's
\* researcher first, and supervisor_tools has returned its output.
C26_Witness ==
    /\ supPc = "returned"
    /\ supOut.ret = "final"
    /\ Len(researchers) = 2
    /\ researchers[1].nth = 2
    /\ researchers[2].nth = 1
    /\ \A i \in DOMAIN researchers : "compressed_research" \in DOMAIN researchers[i].res

\* Whether `part` occurs in `text` as a run of consecutive pieces.
Contains(text, part) ==
    \E k \in 0..(Len(text) - Len(part)) : SubSeq(text, k + 1, k + Len(part)) = part

\* C27: when the plan asks for a refine and supervisor_tools returns its
\* output, the findings the draft was refined from contain the notes of this
\* step (the think outputs and the research summaries), the notes of the
\* earlier steps and the raw notes of the researchers.
C27_RefineSeesEveryNote ==
    LET tool_calls == MostRecentToolCalls(supState)
        ThisStep(m) == m.name \in {"think_tool", "ConductResearch"}
        this_step == SelectSeq(tool_messages, ThisStep)
        earlier == get_notes_from_tool_calls(supState.supervisor_messages)
        raw == AllRawNotes(researchers)
        draft == supOut.update.draft_report
    IN (/\ supPc = "returned"
        /\ supOut.ret = "final"
        /\ CallsNamed(tool_calls, "refine_draft_report") /= <<>>)
          => /\ \A i \in DOMAIN this_step : Contains(draft, this_step[i].content)
             /\ \A i \in DOMAIN earlier : Contains(draft, earlier[i])
             /\ \A i \in DOMAIN raw : Contains(draft, raw[i])

\* C28: the graph goes from START to the supervisor, from the supervisor to
\* supervisor_tools, and from the return of supervisor_tools to END, never
\* back: an invocation that has ended has run the supervisor once and
\* supervisor_tools once; and every Command supervisor_tools returns goes to
\* the end node.
C28_OneRound ==
    /\ [][supPc' /= supPc
             => <<supPc, supPc'>> \in
                   {<<"START", "supervisor">>, <<"supervisor", "called">>,
                    <<"supervisor", "raised">>, <<"called", "gathering">>,
                    <<"called", "returned">>, <<"gathering", "returned">>,
                    <<"returned", "END">>}]_vars
    /\ [](supPc \in {"returned", "END"} => supOut.goto = "__end__")

\* C28, witness: an invocation whose plan asked for research has ended with
\* the output of supervisor_tools.
C28_Witness ==
    /\ supPc = "END"
    /\ supOut.ret = "final"
    /\ researchers /= <<>>

\* C31: the number of researchers of a step that are running at the same time
\* never exceeds max_concurrent_researchers.
C31_AtMostMaxConcurrent ==
    Cardinality({i \in DOMAIN researchers : researchers[i].kind = "running"})
       <= max_concurrent_researchers

====
